---- MODULE Spec2Model ----
(***************************************************************************)
(* Model of the system-acquisition and system-query entry points of the    *)
(* Pimax OpenXR runtime (src/pimax-openxr/system.cpp).                     *)
(*                                                                         *)
(* Every API entry point is one atomic action (the runtime is single-      *)
(* threaded, call-and-return).  The answers of the PVR device service are  *)
(* inputs of the call, drawn from small sets.  The variable `call` records *)
(* what the last call was given, what it returned and which PVR functions  *)
(* it invoked, in order.                                                   *)
(*                                                                         *)
(* Angles are integers in units of half a degree, so that halving the      *)
(* angle between two whole-degree orientations is exact, as it is in       *)
(* floating point.  A tangent value is represented by the angle it is the  *)
(* tangent of, reduced to (-90deg, 90deg].                                 *)
(***************************************************************************)
EXTENDS Integers, Sequences, FiniteSets, TLC

VARIABLES
    m_instanceCreated,         \* set by xrCreateInstance
    has_XR_EXT_hand_tracking,  \* extension negotiated at instance creation
    m_useParallelProjection,   \* parallel-projection preference
    m_pvrSession,              \* PVR session handle, NULL when none
    m_cachedHmdInfo,           \* pvrHmdInfo
    m_loggedProductName,
    m_floorHeight,
    m_cachedEyeInfo,           \* pvrEyeRenderInfo[2], indices 0 (left), 1 (right)
    m_cachedEyeFov,            \* XrFovf[2]
    m_cantingAngle,
    m_systemCreated,
    trackingOrigin,            \* device side: tracking origin of the PVR session
    populated,                 \* history: cache entries a PVR fetch has filled
    lastAcquired,              \* history: device profile of the immediately
                               \* preceding xrGetSystem if it succeeded, else 0
    reacquired,                \* history: properties reported since the
                               \* immediately preceding successful xrGetSystem
                               \* (seen) and, when the xrGetSystem before it
                               \* succeeded on the same device, between the
                               \* two (before)
    acquiredGeometry,          \* history (SpecAcquisitions): for each device
                               \* profile, the geometry the last successful
                               \* xrGetSystem on it left
    m_displayRefreshRate,      \* refresh rate of the display, in Hz
    m_frameDuration,           \* the expected frame duration, in seconds
    m_adapterLuid,             \* the graphics adapter the display is on
    call                       \* the last API call: arguments, outputs, PVR calls

vars == <<m_instanceCreated, has_XR_EXT_hand_tracking, m_useParallelProjection,
          m_pvrSession, m_cachedHmdInfo, m_loggedProductName, m_floorHeight,
          m_cachedEyeInfo, m_cachedEyeFov, m_cantingAngle, m_systemCreated,
          trackingOrigin, populated, lastAcquired, reacquired,
          acquiredGeometry, m_displayRefreshRate, m_frameDuration,
          m_adapterLuid, call>>

(***************************************************************************)
(* Bounds of the model.                                                    *)
(***************************************************************************)
\* number of distinct device profiles the device service can report
MaxProfile == 2
\* longest extension chain passed to xrGetSystemProperties
MaxChainLen == 2
\* largest environmentBlendModeCapacityInput
MaxCapacity == 2

(***************************************************************************)
(* Program constants.                                                      *)
(***************************************************************************)
NULL == 0
TheInstance == 1
TheSystemId == 1
XR_TRUE == 1
XR_FALSE == 0
pvrMaxLayerCount == 16
MaxSwapchainImageSize == 16384
\* PVR::DegreeToRad(6.f), in half-degrees
SixDegrees == 12
HalfTurn == 360
FullTurn == 720

Eyes == {0, 1}

Abs(x) == IF x < 0 THEN -x ELSE x

(***************************************************************************)
(* Trigonometry.                                                           *)
(***************************************************************************)
\* reduce an angle to (-90deg, 90deg], the range of atan
NormHalfTurn(a) ==
    LET r == a % HalfTurn
    IN  IF r > HalfTurn \div 2 THEN r - HalfTurn ELSE r

tan(a) == [tanOf |-> NormHalfTurn(a)]
atan(t) == t.tanOf

\* PVR::Quatf::Angle for two rotations about the vertical axis, each given
\* by its yaw: 2 * acos(|dot|), the unsigned angle between them, at most 180deg
QuatAngle(a, b) ==
    LET d == Abs(a - b) % FullTurn
    IN  IF d > HalfTurn THEN FullTurn - d ELSE d

QuatIdentity == 0

(***************************************************************************)
(* The device service: what a device of profile p reports.  Profile 1 has  *)
(* parallel optics, profile p > 1 has each eye canted by 5(p-1) degrees.   *)
(***************************************************************************)
Profiles == 1..MaxProfile

DeviceCanting(p) == 10 * (p - 1)

DeviceHmdInfo(p) ==
    [VendorId |-> 100 + p, ProductName |-> "Pimax-" \o ToString(p)]

DeviceFloorHeight(p) == 150 + p

DeviceEyeInfo(p, eye) ==
    [Orientation |-> IF eye = 0 THEN DeviceCanting(p) ELSE -DeviceCanting(p),
     Fov |-> IF eye = 0
             THEN [LeftTan |-> tan(100 + 2 * p), RightTan |-> tan(80),
                   UpTan |-> tan(90 + p), DownTan |-> tan(92)]
             ELSE [LeftTan |-> tan(80), RightTan |-> tan(100 + 2 * p),
                   UpTan |-> tan(90 + p), DownTan |-> tan(92)]]

OtherFlags == {"HmdMounted", "IsVisible", "DisplayLost", "ShouldQuit"}

\* every pvrHmdStatus with at most one of the other flags set
StatusValues ==
    { [ServiceReady |-> sr, HmdPresent |-> hp, HmdMounted |-> "HmdMounted" \in o,
       IsVisible |-> "IsVisible" \in o, DisplayLost |-> "DisplayLost" \in o,
       ShouldQuit |-> "ShouldQuit" \in o] :
         sr \in BOOLEAN, hp \in BOOLEAN,
         o \in {x \in SUBSET OtherFlags : Cardinality(x) <= 1} }

ZeroStatus ==
    [ServiceReady |-> FALSE, HmdPresent |-> FALSE, HmdMounted |-> FALSE,
     IsVisible |-> FALSE, DisplayLost |-> FALSE, ShouldQuit |-> FALSE]

PvrResults == {"pvr_success", "pvr_rpc_failed", "pvr_failed"}

(***************************************************************************)
(* Zero-initialised members.                                               *)
(***************************************************************************)
ZeroHmdInfo == [VendorId |-> 0, ProductName |-> ""]

ZeroEyeInfo ==
    [Orientation |-> 0,
     Fov |-> [LeftTan |-> tan(0), RightTan |-> tan(0),
              UpTan |-> tan(0), DownTan |-> tan(0)]]

ZeroFov == [angleLeft |-> 0, angleRight |-> 0, angleUp |-> 0, angleDown |-> 0]

\* the caller's properties structure before the call
NoProperties ==
    [vendorId |-> 0, systemName |-> "", systemId |-> 0,
     positionTracking |-> XR_FALSE, orientationTracking |-> XR_FALSE,
     maxLayerCount |-> 0, maxSwapchainImageWidth |-> 0,
     maxSwapchainImageHeight |-> 0]

NoReacquisition == [before |-> NoProperties, seen |-> NoProperties]

NoCall == [op |-> "none", result |-> "none", pvrCalls |-> <<>>, pvrResults |-> <<>>]

\* a duration in seconds is zero, infinite, or 1 / oneOver
ZeroDuration == [kind |-> "zero", oneOver |-> 0]

\* no acquisition of the profile yet
NoGeometry == [cantingAngle |-> -1]

Init ==
    /\ m_instanceCreated \in BOOLEAN
    /\ has_XR_EXT_hand_tracking \in (IF m_instanceCreated THEN BOOLEAN ELSE {FALSE})
    /\ m_useParallelProjection \in (IF m_instanceCreated THEN BOOLEAN ELSE {FALSE})
    /\ m_pvrSession = NULL
    /\ m_cachedHmdInfo = ZeroHmdInfo
    /\ m_loggedProductName = FALSE
    /\ m_floorHeight = 0
    /\ m_cachedEyeInfo = [i \in Eyes |-> ZeroEyeInfo]
    /\ m_cachedEyeFov = [i \in Eyes |-> ZeroFov]
    /\ m_cantingAngle = 0
    /\ m_systemCreated = FALSE
    /\ trackingOrigin = "default"
    /\ populated = {}
    /\ lastAcquired = 0
    /\ reacquired = NoReacquisition
    /\ acquiredGeometry = [p \in Profiles |-> NoGeometry]
    /\ m_displayRefreshRate = 0
    /\ m_frameDuration = ZeroDuration
    /\ m_adapterLuid = 0
    /\ call = NoCall

(***************************************************************************)
(* The frame of a running call: the members it may write, its out          *)
(* parameters, and whether it has returned.                                *)
(***************************************************************************)
Frame ==
    [running |-> TRUE, result |-> "none", pvrCalls |-> <<>>, pvrResults |-> <<>>,
     m_pvrSession |-> m_pvrSession, m_cachedHmdInfo |-> m_cachedHmdInfo,
     m_loggedProductName |-> m_loggedProductName,
     m_floorHeight |-> m_floorHeight, m_cachedEyeInfo |-> m_cachedEyeInfo,
     m_cachedEyeFov |-> m_cachedEyeFov, m_cantingAngle |-> m_cantingAngle,
     m_systemCreated |-> m_systemCreated, trackingOrigin |-> trackingOrigin,
     populated |-> populated, status |-> ZeroStatus, systemId |-> NULL]

Return(f, r) == [f EXCEPT !.running = FALSE, !.result = r]

\* a PVR function is called and answers with pvrResult
Invoke(f, fn, pvrResult) ==
    [f EXCEPT !.pvrCalls = Append(@, fn), !.pvrResults = Append(@, pvrResult)]

\* CHECK_PVRCMD: a PVR result other than success throws; the exception leaves
\* the entry point, which reports a runtime failure
CHECK_PVRCMD(f, pvrResult) ==
    IF pvrResult = "pvr_success" THEN f ELSE Return(f, "XR_ERROR_RUNTIME_FAILURE")

(***************************************************************************)
(* updateEyeInfo                                                           *)
(***************************************************************************)
CantingAngleOf(eyeInfo) ==
    QuatAngle(eyeInfo[0].Orientation, eyeInfo[1].Orientation) \div 2

RawEyeFov(info) ==
    [angleDown |-> -atan(info.Fov.DownTan), angleUp |-> atan(info.Fov.UpTan),
     angleLeft |-> -atan(info.Fov.LeftTan), angleRight |-> atan(info.Fov.RightTan)]

\* variant: the canting angle is not consulted
ParallelProjectionActive_flagOnly(useParallelProjection, cantingAngle) ==
    useParallelProjection

ParallelProjectionActive(useParallelProjection, cantingAngle) ==
    useParallelProjection /\ cantingAngle # 0

\* variant: both eyes shifted the same way
ShiftedEyeFov_sameSign(fov, i, cantingAngle) ==
    [angleLeft |-> fov.angleLeft + cantingAngle,
     angleRight |-> fov.angleRight + cantingAngle,
     angleUp |-> fov.angleUp + SixDegrees,
     angleDown |-> fov.angleDown - SixDegrees]

ShiftedEyeFov(fov, i, cantingAngle) ==
    LET angle == IF i = 0 THEN -cantingAngle ELSE cantingAngle
    IN  [angleLeft |-> fov.angleLeft + angle,
         angleRight |-> fov.angleRight + angle,
         angleUp |-> fov.angleUp + SixDegrees,
         angleDown |-> fov.angleDown - SixDegrees]

updateEyeInfo(f) ==
    LET canting == CantingAngleOf(f.m_cachedEyeInfo)
        pp == ParallelProjectionActive(m_useParallelProjection, canting)
    IN  [f EXCEPT
           !.m_cantingAngle = canting,
           !.m_cachedEyeFov =
               [i \in Eyes |->
                  IF pp THEN ShiftedEyeFov(RawEyeFov(f.m_cachedEyeInfo[i]), i, canting)
                        ELSE RawEyeFov(f.m_cachedEyeInfo[i])],
           !.m_cachedEyeInfo =
               [i \in Eyes |->
                  IF pp THEN [f.m_cachedEyeInfo[i] EXCEPT !.Orientation = QuatIdentity]
                        ELSE f.m_cachedEyeInfo[i]]]

(***************************************************************************)
(* xrGetSystem                                                             *)
(***************************************************************************)
\* the answers of the device service during one xrGetSystem call
Answers(create, session, status, flags, hmd, eye0, eye1, track, profile) ==
    [createResult |-> create, newSession |-> session,
     statusResult |-> status, status |-> flags, hmdResult |-> hmd,
     eyeResult |-> <<eye0, eye1>>, trackResult |-> track,
     profile |-> profile]

ReadyStatus == [ZeroStatus EXCEPT !.ServiceReady = TRUE, !.HmdPresent = TRUE]

\* the session handle pvr_createSession hands out in this call: one it has
\* not handed out before
NewSessions == {m_pvrSession + 1}

PvrFailures == PvrResults \ {"pvr_success"}

Or(failAt, step, failure) == IF failAt = step THEN failure ELSE "pvr_success"

\* the device answers, each failure point taken alone; an answer the call
\* cannot reach has its default value
DeviceAnswers ==
    { Answers(r, 1, "pvr_success", ReadyStatus, "pvr_success", "pvr_success",
              "pvr_success", "pvr_success", 1) :
        r \in IF m_pvrSession = NULL THEN PvrFailures ELSE {} }
    \cup
    { Answers("pvr_success", h, r, ZeroStatus, "pvr_success",
              "pvr_success", "pvr_success", "pvr_success", 1) :
        h \in NewSessions, r \in PvrFailures }
    \cup
    { Answers("pvr_success", h, "pvr_success", st, "pvr_success",
              "pvr_success", "pvr_success", "pvr_success", 1) :
        h \in NewSessions,
        st \in {x \in StatusValues : ~(x.ServiceReady /\ x.HmdPresent)} }
    \cup
    { Answers("pvr_success", h, "pvr_success", st,
              Or(failAt, "hmd", r), Or(failAt, "eye0", r),
              Or(failAt, "eye1", r), Or(failAt, "track", r), p) :
        h \in NewSessions, st \in {ReadyStatus},
        failAt \in {"hmd", "eye0", "eye1", "track"}, r \in PvrFailures,
        p \in Profiles }
    \cup
    { Answers("pvr_success", h, "pvr_success", st, "pvr_success",
              "pvr_success", "pvr_success", "pvr_success", p) :
        h \in NewSessions,
        st \in {x \in StatusValues : x.ServiceReady /\ x.HmdPresent},
        p \in Profiles }

DefaultAnswers ==
    Answers("pvr_success", 1, "pvr_success", ReadyStatus, "pvr_success",
            "pvr_success", "pvr_success", "pvr_success", 1)

GetInfoTypes == {"XR_TYPE_SYSTEM_GET_INFO", "XR_TYPE_UNKNOWN"}
FormFactors == {"XR_FORM_FACTOR_HEAD_MOUNTED_DISPLAY", "XR_FORM_FACTOR_HANDHELD_DISPLAY"}
InstanceHandles == {1, 2}
SystemIds == {1, 2}

\* the xrGetSystem calls: a request the validation rejects reaches no device
\* answer, so it is paired with the default answers only
GetSystemCalls ==
    { [type |-> t, instance |-> i, formFactor |-> ff, in |-> a] :
        t \in GetInfoTypes, i \in InstanceHandles, ff \in FormFactors,
        a \in {DefaultAnswers} }
    \cup
    { [type |-> "XR_TYPE_SYSTEM_GET_INFO", instance |-> TheInstance,
       formFactor |-> "XR_FORM_FACTOR_HEAD_MOUNTED_DISPLAY", in |-> a] :
        a \in DeviceAnswers }

InstanceValid(instance) == m_instanceCreated /\ instance = TheInstance

\* mutant: the instance handle is checked before the type tag
GS_Validate_handleFirst(f, type, instance, formFactor) ==
    IF ~InstanceValid(instance)
    THEN Return(f, "XR_ERROR_HANDLE_INVALID")
    ELSE IF type # "XR_TYPE_SYSTEM_GET_INFO"
    THEN Return(f, "XR_ERROR_VALIDATION_FAILURE")
    ELSE IF formFactor # "XR_FORM_FACTOR_HEAD_MOUNTED_DISPLAY"
    THEN Return(f, "XR_ERROR_FORM_FACTOR_UNSUPPORTED")
    ELSE f

\* lines 36-51: request validation
GS_Validate(f, type, instance, formFactor) ==
    IF type # "XR_TYPE_SYSTEM_GET_INFO"
    THEN Return(f, "XR_ERROR_VALIDATION_FAILURE")
    ELSE IF ~InstanceValid(instance)
    THEN Return(f, "XR_ERROR_HANDLE_INVALID")
    ELSE IF formFactor # "XR_FORM_FACTOR_HEAD_MOUNTED_DISPLAY"
    THEN Return(f, "XR_ERROR_FORM_FACTOR_UNSUPPORTED")
    ELSE f

\* mutant: the session is created on every call
NeedsSession_always(session) == TRUE

NeedsSession(session) == session = NULL

\* pvr_createSession stores the handle only when it succeeds
pvr_createSession(f, in) ==
    LET g == Invoke(f, "pvr_createSession", in.createResult)
    IN  IF in.createResult = "pvr_success"
        THEN [g EXCEPT !.m_pvrSession = in.newSession]
        ELSE g

\* mutant: pvr_rpc_failed is not told apart from the other failures
SessionResult_noRpc(f, result) == CHECK_PVRCMD(f, result)

SessionResult(f, result) ==
    IF result = "pvr_rpc_failed"
    THEN Return(f, "XR_ERROR_FORM_FACTOR_UNAVAILABLE")
    ELSE CHECK_PVRCMD(f, result)

\* lines 54-63
GS_CreateSession(f, in) ==
    IF ~f.running \/ ~NeedsSession(f.m_pvrSession) THEN f
    ELSE SessionResult(pvr_createSession(f, in), in.createResult)

\* mutant: the headset must also be mounted
HmdAvailable_mounted(status) ==
    status.ServiceReady /\ status.HmdPresent /\ status.HmdMounted

HmdAvailable(status) == status.ServiceReady /\ status.HmdPresent

\* mutant: an absent headset drops the created system
GS_CheckStatus_drop(f, in) ==
    IF ~f.running THEN f
    ELSE LET g == Invoke(f, "pvr_getHmdStatus", in.statusResult)
             h == CHECK_PVRCMD(
                     IF in.statusResult = "pvr_success"
                     THEN [g EXCEPT !.status = in.status] ELSE g,
                     in.statusResult)
         IN  IF ~h.running THEN h
             ELSE IF ~(h.status.ServiceReady /\ h.status.HmdPresent)
             THEN Return([h EXCEPT !.m_systemCreated = FALSE],
                         "XR_ERROR_FORM_FACTOR_UNAVAILABLE")
             ELSE h

\* lines 66-78
GS_CheckStatus(f, in) ==
    IF ~f.running THEN f
    ELSE LET g == Invoke(f, "pvr_getHmdStatus", in.statusResult)
             h == CHECK_PVRCMD(
                     IF in.statusResult = "pvr_success"
                     THEN [g EXCEPT !.status = in.status] ELSE g,
                     in.statusResult)
         IN  IF ~h.running THEN h
             ELSE IF ~HmdAvailable(h.status)
             THEN Return(h, "XR_ERROR_FORM_FACTOR_UNAVAILABLE")
             ELSE h

\* lines 81-97
GS_HmdInfo(f, in) ==
    IF ~f.running THEN f
    ELSE LET g == Invoke(f, "pvr_getHmdInfo", in.hmdResult)
             h == CHECK_PVRCMD(
                     IF in.hmdResult = "pvr_success"
                     THEN [g EXCEPT !.m_cachedHmdInfo = DeviceHmdInfo(in.profile),
                                    !.populated = @ \cup {"hmdInfo"}]
                     ELSE g,
                     in.hmdResult)
         IN  IF ~h.running THEN h
             ELSE [h EXCEPT !.m_loggedProductName = TRUE]

\* mutant: the canting angle is cleared when the common information is cached
GS_FloorHeight_clears(f, in) ==
    IF ~f.running THEN f
    ELSE [Invoke(f, "pvr_getFloatConfig", "pvr_success") EXCEPT
             !.m_floorHeight = DeviceFloorHeight(in.profile),
             !.m_cantingAngle = 0]

\* line 100
GS_FloorHeight(f, in) ==
    IF ~f.running THEN f
    ELSE [Invoke(f, "pvr_getFloatConfig", "pvr_success") EXCEPT
             !.m_floorHeight = DeviceFloorHeight(in.profile)]

EyeName(eye) == IF eye = 0 THEN "pvr_getEyeRenderInfo(Left)" ELSE "pvr_getEyeRenderInfo(Right)"
EyeTag(eye) == IF eye = 0 THEN "eyeInfo0" ELSE "eyeInfo1"

\* mutant: an eye info already cached is not fetched again
GS_EyeInfo_cached(f, in, eye) ==
    IF ~f.running \/ EyeTag(eye) \in f.populated THEN f
    ELSE LET g == Invoke(f, EyeName(eye), in.eyeResult[eye + 1])
         IN  CHECK_PVRCMD(
                 IF in.eyeResult[eye + 1] = "pvr_success"
                 THEN [g EXCEPT !.m_cachedEyeInfo[eye] = DeviceEyeInfo(in.profile, eye),
                                !.populated = @ \cup {EyeTag(eye)}]
                 ELSE g,
                 in.eyeResult[eye + 1])

\* lines 106, 107
GS_EyeInfo(f, in, eye) ==
    IF ~f.running THEN f
    ELSE LET g == Invoke(f, EyeName(eye), in.eyeResult[eye + 1])
         IN  CHECK_PVRCMD(
                 IF in.eyeResult[eye + 1] = "pvr_success"
                 THEN [g EXCEPT !.m_cachedEyeInfo[eye] = DeviceEyeInfo(in.profile, eye),
                                !.populated = @ \cup {EyeTag(eye)}]
                 ELSE g,
                 in.eyeResult[eye + 1])

\* line 108
GS_UpdateEyeInfo(f) == IF ~f.running THEN f ELSE updateEyeInfo(f)

\* mutant: the result of pvr_setTrackingOriginType is not checked
GS_TrackingOrigin_unchecked(f, in) ==
    IF ~f.running THEN f
    ELSE LET g == Invoke(f, "pvr_setTrackingOriginType", in.trackResult)
         IN  IF in.trackResult = "pvr_success"
             THEN [g EXCEPT !.trackingOrigin = "pvrTrackingOrigin_EyeLevel"]
             ELSE g

\* line 114
GS_TrackingOrigin(f, in) ==
    IF ~f.running THEN f
    ELSE LET g == Invoke(f, "pvr_setTrackingOriginType", in.trackResult)
         IN  CHECK_PVRCMD(
                 IF in.trackResult = "pvr_success"
                 THEN [g EXCEPT !.trackingOrigin = "pvrTrackingOrigin_EyeLevel"]
                 ELSE g,
                 in.trackResult)

\* mutant: a re-acquisition hands out a new system id
GS_Finish_newId(f) ==
    IF ~f.running THEN f
    ELSE Return([f EXCEPT !.m_systemCreated = TRUE,
                          !.systemId = IF f.m_systemCreated THEN TheSystemId + 1
                                       ELSE TheSystemId],
                "XR_SUCCESS")

\* lines 116-121
GS_Finish(f) ==
    IF ~f.running THEN f
    ELSE Return([f EXCEPT !.m_systemCreated = TRUE, !.systemId = TheSystemId],
                "XR_SUCCESS")

\* mutant: the tracking origin is configured before the eye infos are fetched
GetSystemFrame_trackFirst(type, instance, formFactor, in) ==
    LET f1 == GS_Validate(Frame, type, instance, formFactor)
        f2 == GS_CreateSession(f1, in)
        f3 == GS_CheckStatus(f2, in)
        f4 == GS_HmdInfo(f3, in)
        f5 == GS_FloorHeight(f4, in)
        f6 == GS_TrackingOrigin(f5, in)
        f7 == GS_EyeInfo(f6, in, 0)
        f8 == GS_EyeInfo(f7, in, 1)
        f9 == GS_UpdateEyeInfo(f8)
    IN  GS_Finish(f9)

GetSystemFrame(type, instance, formFactor, in) ==
    LET f1 == GS_Validate(Frame, type, instance, formFactor)
        f2 == GS_CreateSession(f1, in)
        f3 == GS_CheckStatus(f2, in)
        f4 == GS_HmdInfo(f3, in)
        f5 == GS_FloorHeight(f4, in)
        f6 == GS_EyeInfo(f5, in, 0)
        f7 == GS_EyeInfo(f6, in, 1)
        f8 == GS_UpdateEyeInfo(f7)
        f9 == GS_TrackingOrigin(f8, in)
    IN  GS_Finish(f9)

Commit(f) ==
    /\ m_pvrSession' = f.m_pvrSession
    /\ m_cachedHmdInfo' = f.m_cachedHmdInfo
    /\ m_loggedProductName' = f.m_loggedProductName
    /\ m_floorHeight' = f.m_floorHeight
    /\ m_cachedEyeInfo' = f.m_cachedEyeInfo
    /\ m_cachedEyeFov' = f.m_cachedEyeFov
    /\ m_cantingAngle' = f.m_cantingAngle
    /\ m_systemCreated' = f.m_systemCreated
    /\ trackingOrigin' = f.trackingOrigin
    /\ populated' = f.populated

\* the effect of the call c that ran as frame f
GetSystemCall(c, f) ==
    /\ Commit(f)
    /\ lastAcquired' = IF f.result = "XR_SUCCESS" THEN c.in.profile ELSE 0
    /\ reacquired' =
           IF f.result = "XR_SUCCESS" /\ lastAcquired = c.in.profile
           THEN [before |-> reacquired.seen, seen |-> NoProperties]
           ELSE NoReacquisition
    /\ call' = [op |-> "xrGetSystem", result |-> f.result,
                pvrCalls |-> f.pvrCalls, pvrResults |-> f.pvrResults,
                type |-> c.type, instance |-> c.instance,
                formFactor |-> c.formFactor,
                status |-> f.status, systemId |-> f.systemId]
    /\ UNCHANGED <<m_instanceCreated, has_XR_EXT_hand_tracking,
                   m_useParallelProjection, m_displayRefreshRate,
                   m_frameDuration, m_adapterLuid>>

xrGetSystem ==
    \E c \in GetSystemCalls :
       \E f \in {GetSystemFrame(c.type, c.instance, c.formFactor, c.in)} :
           /\ GetSystemCall(c, f)
           /\ UNCHANGED acquiredGeometry

\* the geometry a call leaves cached
GeometryOf(f) ==
    [cantingAngle |-> f.m_cantingAngle, eyeFov |-> f.m_cachedEyeFov,
     parallel |-> m_useParallelProjection /\ f.m_cantingAngle # 0]

\* xrGetSystem, with the geometry each successful call leaves recorded per
\* device profile
xrGetSystemRecorded ==
    \E c \in GetSystemCalls :
       \E f \in {GetSystemFrame(c.type, c.instance, c.formFactor, c.in)} :
           /\ GetSystemCall(c, f)
           /\ acquiredGeometry' =
                  IF f.result = "XR_SUCCESS"
                  THEN [acquiredGeometry EXCEPT ![c.in.profile] = GeometryOf(f)]
                  ELSE acquiredGeometry

(***************************************************************************)
(* xrGetSystemProperties                                                   *)
(***************************************************************************)
PropertiesTypes == {"XR_TYPE_SYSTEM_PROPERTIES", "XR_TYPE_UNKNOWN"}

BlockTypes == {"XR_TYPE_SYSTEM_HAND_TRACKING_PROPERTIES_EXT", "XR_TYPE_OTHER"}

\* a block of the next chain as the caller passes it; supportsHandTracking is
\* the 32-bit word that follows the type and next members, whatever the type
Block(t) == [type |-> t, supportsHandTracking |-> XR_FALSE]

RECURSIVE ChainsOfLen(_)
ChainsOfLen(n) ==
    IF n = 0 THEN {<<>>}
    ELSE {Append(c, Block(t)) : c \in ChainsOfLen(n - 1), t \in BlockTypes}

Chains == UNION {ChainsOfLen(n) : n \in 0..MaxChainLen}

GetPropertiesCalls ==
    { [type |-> t, instance |-> i, systemId |-> sid, chain |-> <<>>] :
        t \in PropertiesTypes, i \in InstanceHandles, sid \in SystemIds }
    \cup
    { [type |-> "XR_TYPE_SYSTEM_PROPERTIES", instance |-> TheInstance,
       systemId |-> TheSystemId, chain |-> c] : c \in Chains }

\* mutant: the system id is checked, not whether the system was created
SystemValid_idOnly(systemId) == systemId = TheSystemId

SystemValid(systemId) == m_systemCreated /\ systemId = TheSystemId

\* lines 128-141
PropertiesResult(type, instance, systemId) ==
    IF type # "XR_TYPE_SYSTEM_PROPERTIES" THEN "XR_ERROR_VALIDATION_FAILURE"
    ELSE IF ~InstanceValid(instance) THEN "XR_ERROR_HANDLE_INVALID"
    ELSE IF ~SystemValid(systemId) THEN "XR_ERROR_SYSTEM_INVALID"
    ELSE "XR_SUCCESS"

\* lines 146-152: the index of the first block from i on whose type is the
\* hand-tracking one, 0 (null) at the end of the chain
RECURSIVE WalkChain(_, _)
WalkChain(chain, i) ==
    IF i > Len(chain) THEN 0
    ELSE IF chain[i].type = "XR_TYPE_SYSTEM_HAND_TRACKING_PROPERTIES_EXT" THEN i
    ELSE WalkChain(chain, i + 1)

\* lines 143-153: handTrackingProperties starts at properties->next and is
\* advanced only when the extension was negotiated
HandTrackingBlock(chain, negotiated) ==
    IF negotiated THEN WalkChain(chain, 1)
    ELSE IF chain = <<>> THEN 0 ELSE 1

\* lines 181-188
FillChain(chain, negotiated) ==
    LET i == HandTrackingBlock(chain, negotiated)
    IN  IF i = 0 THEN chain
        ELSE [chain EXCEPT ![i].supportsHandTracking = XR_TRUE]

\* sprintf_s(systemName, "%s (aapvr)", ProductName)
SystemName(productName) == productName \o " (aapvr)"

\* lines 155-168
SystemProperties(hmdInfo, systemId) ==
    [vendorId |-> hmdInfo.VendorId,
     systemName |-> SystemName(hmdInfo.ProductName),
     systemId |-> systemId,
     positionTracking |-> XR_TRUE, orientationTracking |-> XR_TRUE,
     maxLayerCount |-> pvrMaxLayerCount,
     maxSwapchainImageWidth |-> MaxSwapchainImageSize,
     maxSwapchainImageHeight |-> MaxSwapchainImageSize]

\* variant: the system name is formatted in place, in the cached product name
xrGetSystemProperties_inPlace ==
    \E c \in GetPropertiesCalls :
       \E r \in {PropertiesResult(c.type, c.instance, c.systemId)} :
           /\ call' = [op |-> "xrGetSystemProperties", result |-> r,
                       pvrCalls |-> <<>>, pvrResults |-> <<>>,
                       type |-> c.type, instance |-> c.instance,
                       systemId |-> c.systemId, chainIn |-> c.chain,
                       properties |->
                           IF r = "XR_SUCCESS"
                           THEN SystemProperties(m_cachedHmdInfo, c.systemId)
                           ELSE NoProperties,
                       chain |->
                           IF r = "XR_SUCCESS"
                           THEN FillChain(c.chain, has_XR_EXT_hand_tracking)
                           ELSE c.chain]
           /\ m_cachedHmdInfo' =
                  IF r = "XR_SUCCESS"
                  THEN [m_cachedHmdInfo EXCEPT !.ProductName = SystemName("")]
                  ELSE m_cachedHmdInfo
           /\ UNCHANGED <<m_instanceCreated, has_XR_EXT_hand_tracking,
                          m_useParallelProjection, m_pvrSession,
                          m_loggedProductName, m_floorHeight,
                          m_cachedEyeInfo, m_cachedEyeFov, m_cantingAngle,
                          m_systemCreated, trackingOrigin, populated,
                          lastAcquired, reacquired, acquiredGeometry,
                          m_displayRefreshRate, m_frameDuration, m_adapterLuid>>

xrGetSystemProperties ==
    \E c \in GetPropertiesCalls :
       \E r \in {PropertiesResult(c.type, c.instance, c.systemId)} :
           /\ call' = [op |-> "xrGetSystemProperties", result |-> r,
                       pvrCalls |-> <<>>, pvrResults |-> <<>>,
                       type |-> c.type, instance |-> c.instance,
                       systemId |-> c.systemId, chainIn |-> c.chain,
                       properties |->
                           IF r = "XR_SUCCESS"
                           THEN SystemProperties(m_cachedHmdInfo, c.systemId)
                           ELSE NoProperties,
                       chain |->
                           IF r = "XR_SUCCESS"
                           THEN FillChain(c.chain, has_XR_EXT_hand_tracking)
                           ELSE c.chain]
           /\ reacquired' =
                  IF r = "XR_SUCCESS" /\ lastAcquired # 0
                  THEN [reacquired EXCEPT
                          !.seen = SystemProperties(m_cachedHmdInfo, c.systemId)]
                  ELSE reacquired
           /\ UNCHANGED <<m_instanceCreated, has_XR_EXT_hand_tracking,
                          m_useParallelProjection, m_pvrSession,
                          m_cachedHmdInfo, m_loggedProductName, m_floorHeight,
                          m_cachedEyeInfo, m_cachedEyeFov, m_cantingAngle,
                          m_systemCreated, trackingOrigin, populated,
                          lastAcquired, acquiredGeometry,
                          m_displayRefreshRate, m_frameDuration, m_adapterLuid>>

(***************************************************************************)
(* xrEnumerateEnvironmentBlendModes                                        *)
(***************************************************************************)
ViewConfigurationTypes ==
    {"XR_VIEW_CONFIGURATION_TYPE_PRIMARY_STEREO",
     "XR_VIEW_CONFIGURATION_TYPE_PRIMARY_MONO"}

\* line 201
blendModes == <<"XR_ENVIRONMENT_BLEND_MODE_OPAQUE">>

\* the caller's count variable before the call
NoCount == -1

\* the caller's array of the given capacity before the call
NoModes(capacity) == [i \in 1..capacity |-> "untouched"]

EnumerateCalls ==
    { [instance |-> i, systemId |-> sid,
       viewConfigurationType |-> "XR_VIEW_CONFIGURATION_TYPE_PRIMARY_STEREO",
       capacity |-> 0, hasArray |-> FALSE] :
        i \in InstanceHandles, sid \in SystemIds }
    \cup
    { [instance |-> TheInstance, systemId |-> TheSystemId,
       viewConfigurationType |-> v, capacity |-> n, hasArray |-> a] :
        v \in ViewConfigurationTypes, n \in 0..MaxCapacity, a \in BOOLEAN }

\* lines 210-224
EnumerateResult(instance, systemId, viewConfigurationType, capacity) ==
    IF ~InstanceValid(instance) THEN "XR_ERROR_HANDLE_INVALID"
    ELSE IF ~SystemValid(systemId) THEN "XR_ERROR_SYSTEM_INVALID"
    ELSE IF viewConfigurationType # "XR_VIEW_CONFIGURATION_TYPE_PRIMARY_STEREO"
    THEN "XR_ERROR_VIEW_CONFIGURATION_TYPE_UNSUPPORTED"
    ELSE IF capacity # 0 /\ capacity < Len(blendModes)
    THEN "XR_ERROR_SIZE_INSUFFICIENT"
    ELSE "XR_SUCCESS"

\* variant: the copy loop runs over the caller's capacity
FillModes_whole(capacity, hasArray, count) ==
    IF capacity # 0 /\ hasArray
    THEN [i \in 1..capacity |-> blendModes[1]]
    ELSE NoModes(capacity)

\* lines 231-238
FillModes(capacity, hasArray, count) ==
    IF capacity # 0 /\ hasArray
    THEN [i \in 1..capacity |-> IF i <= count THEN blendModes[i] ELSE "untouched"]
    ELSE NoModes(capacity)

xrEnumerateEnvironmentBlendModes ==
    \E c \in EnumerateCalls :
       \E r \in {EnumerateResult(c.instance, c.systemId,
                                 c.viewConfigurationType, c.capacity)} :
           /\ call' = [op |-> "xrEnumerateEnvironmentBlendModes", result |-> r,
                       pvrCalls |-> <<>>, pvrResults |-> <<>>,
                       instance |-> c.instance, systemId |-> c.systemId,
                       viewConfigurationType |-> c.viewConfigurationType,
                       capacity |-> c.capacity, hasArray |-> c.hasArray,
                       count |-> IF r = "XR_SUCCESS" THEN Len(blendModes)
                                 ELSE NoCount,
                       modes |-> IF r = "XR_SUCCESS"
                                 THEN FillModes(c.capacity, c.hasArray,
                                                Len(blendModes))
                                 ELSE NoModes(c.capacity)]
           /\ UNCHANGED <<m_instanceCreated, has_XR_EXT_hand_tracking,
                          m_useParallelProjection, m_pvrSession,
                          m_cachedHmdInfo, m_loggedProductName, m_floorHeight,
                          m_cachedEyeInfo, m_cachedEyeFov, m_cantingAngle,
                          m_systemCreated, trackingOrigin, populated,
                          lastAcquired, reacquired, acquiredGeometry,
                          m_displayRefreshRate, m_frameDuration, m_adapterLuid>>

(***************************************************************************)
(* getRuntimeStatus (companion.cpp).  The function works on local handles  *)
(* only: its own PVR environment and its own, temporary, session.          *)
(***************************************************************************)
DeviceRefreshRate(p) == 60 + 15 * p

\* pvr_getFovTextureSize: the texture the device recommends grows with the
\* angular extent of the field of view
DeviceFovTextureSize(fov) ==
    [w |-> 10 * (atan(fov.LeftTan) + atan(fov.RightTan)),
     h |-> 10 * (atan(fov.UpTan) + atan(fov.DownTan))]

\* angles of the model are in half-degrees
RadToDegree(a) == a \div 2

\* the caller's RuntimeStatus before the call
NoRuntimeStatus ==
    [valid |-> FALSE, refreshRate |-> 0, resolutionWidth |-> 0,
     resolutionHeight |-> 0, fovLevel |-> 0, fov |-> 0, floorHeight |-> 0,
     useParallelProjection |-> FALSE, useSmartSmoothing |-> FALSE,
     useLighthouseTracking |-> FALSE, fps |-> 0]

StatusFields ==
    {"refreshRate", "resolutionWidth", "resolutionHeight", "fovLevel", "fov",
     "floorHeight", "useParallelProjection", "useSmartSmoothing",
     "useLighthouseTracking", "fps"}

RuntimeStatusSteps ==
    {"pvr_initialise", "pvr_createSession", "pvr_getEyeDisplayInfo",
     "pvr_getEyeRenderInfo(Left)", "pvr_getEyeRenderInfo(Right)",
     "pvr_getFovTextureSize"}

\* one getRuntimeStatus call: the device it talks to, the user's
\* steamvr_use_native_fov setting and the PVR call that fails, if any
RuntimeStatusCalls ==
    { [profile |-> p, nativeFov |-> n, failAt |-> "none", failure |-> "pvr_success"] :
        p \in Profiles, n \in BOOLEAN }
    \cup
    { [profile |-> 1, nativeFov |-> FALSE, failAt |-> s, failure |-> r] :
        s \in RuntimeStatusSteps, r \in PvrFailures }

\* lines 44-46: the locals of the call
StatusFrame ==
    [running |-> TRUE, result |-> "none", pvrCalls |-> <<>>, pvrResults |-> <<>>,
     pvr |-> "none", pvrSession |-> "none", refresh_rate |-> 0,
     eyeInfo |-> [i \in Eyes |-> ZeroEyeInfo], cantingAngle |-> 0, fov |-> 0,
     useParallelProjection |-> FALSE, fovForResolution |-> ZeroEyeInfo.Fov,
     viewportSize |-> [w |-> 0, h |-> 0], status |-> NoRuntimeStatus,
     writes |-> <<>>]

\* line 48
RS_Initialise(f, a) ==
    LET r == Or(a.failAt, "pvr_initialise", a.failure)
        g == Invoke(f, "pvr_initialise", r)
    IN  CHECK_PVRCMD(IF r = "pvr_success" THEN [g EXCEPT !.pvr = "initialised"] ELSE g, r)

\* line 51
RS_CreateSession(f, a) ==
    IF ~f.running THEN f
    ELSE LET r == Or(a.failAt, "pvr_createSession", a.failure)
             g == Invoke(f, "pvr_createSession", r)
         IN  CHECK_PVRCMD(IF r = "pvr_success" THEN [g EXCEPT !.pvrSession = "created"] ELSE g, r)

\* line 54
RS_DisplayInfo(f, a) ==
    IF ~f.running THEN f
    ELSE LET r == Or(a.failAt, "pvr_getEyeDisplayInfo", a.failure)
             g == Invoke(f, "pvr_getEyeDisplayInfo", r)
         IN  CHECK_PVRCMD(IF r = "pvr_success"
                          THEN [g EXCEPT !.refresh_rate = DeviceRefreshRate(a.profile)]
                          ELSE g, r)

\* lines 57-58
RS_EyeInfo(f, a, i) ==
    IF ~f.running THEN f
    ELSE LET r == Or(a.failAt, EyeName(i), a.failure)
             g == Invoke(f, EyeName(i), r)
         IN  CHECK_PVRCMD(IF r = "pvr_success"
                          THEN [g EXCEPT !.eyeInfo[i] = DeviceEyeInfo(a.profile, i)]
                          ELSE g, r)

\* variant: the setting is read as "use parallel projection"
RS_Mode_inverted(f, a) ==
    IF ~f.running THEN f
    ELSE LET canting == CantingAngleOf(f.eyeInfo)
             g == [f EXCEPT
                     !.cantingAngle = canting,
                     !.fov = RadToDegree(atan(f.eyeInfo[0].Fov.LeftTan)
                                         + atan(f.eyeInfo[1].Fov.RightTan)
                                         + canting * 2)]
         IN  IF canting = 0 THEN [g EXCEPT !.useParallelProjection = FALSE]
             ELSE [Invoke(g, "pvr_getIntConfig(steamvr_use_native_fov)", "pvr_success")
                     EXCEPT !.useParallelProjection = a.nativeFov]

\* lines 59-62; the setting is read only when the canting angle is nonzero
RS_Mode(f, a) ==
    IF ~f.running THEN f
    ELSE LET canting == CantingAngleOf(f.eyeInfo)
             g == [f EXCEPT
                     !.cantingAngle = canting,
                     !.fov = RadToDegree(atan(f.eyeInfo[0].Fov.LeftTan)
                                         + atan(f.eyeInfo[1].Fov.RightTan)
                                         + canting * 2)]
         IN  IF canting = 0 THEN [g EXCEPT !.useParallelProjection = FALSE]
             ELSE [Invoke(g, "pvr_getIntConfig(steamvr_use_native_fov)", "pvr_success")
                     EXCEPT !.useParallelProjection = ~a.nativeFov]

\* variant: the down tangent is corrected with the sign updateEyeInfo gives
\* the signed angle
RS_FovForResolution_signed(f) ==
    IF ~f.running THEN f
    ELSE LET e == f.eyeInfo[0].Fov
         IN  IF f.useParallelProjection
             THEN [f EXCEPT !.fovForResolution =
                     [LeftTan |-> tan(atan(e.LeftTan) + f.cantingAngle),
                      RightTan |-> tan(atan(e.RightTan) - f.cantingAngle),
                      UpTan |-> tan(atan(e.UpTan) + SixDegrees),
                      DownTan |-> tan(atan(e.DownTan) - SixDegrees)]]
             ELSE [f EXCEPT !.fovForResolution = e]

\* lines 64-70
RS_FovForResolution(f) ==
    IF ~f.running THEN f
    ELSE LET e == f.eyeInfo[0].Fov
         IN  IF f.useParallelProjection
             THEN [f EXCEPT !.fovForResolution =
                     [LeftTan |-> tan(atan(e.LeftTan) + f.cantingAngle),
                      RightTan |-> tan(atan(e.RightTan) - f.cantingAngle),
                      UpTan |-> tan(atan(e.UpTan) + SixDegrees),
                      DownTan |-> tan(atan(e.DownTan) + SixDegrees)]]
             ELSE [f EXCEPT !.fovForResolution = e]

\* lines 72-73
RS_FovTextureSize(f, a) ==
    IF ~f.running THEN f
    ELSE LET r == Or(a.failAt, "pvr_getFovTextureSize", a.failure)
             g == Invoke(f, "pvr_getFovTextureSize", r)
         IN  CHECK_PVRCMD(IF r = "pvr_success"
                          THEN [g EXCEPT !.viewportSize =
                                           DeviceFovTextureSize(f.fovForResolution)]
                          ELSE g, r)

\* one assignment to a field of *status
Store(f, field, value) ==
    [f EXCEPT !.status[field] = value, !.writes = Append(@, field)]

\* a configuration value is read from the session
ReadConfig(f, getter, key) ==
    Invoke(f, getter \o "(" \o key \o ")", "pvr_success")

\* lines 75-86; the settings not modelled have their default values
RS_WriteStatus(f, a) ==
    IF ~f.running THEN f
    ELSE LET f1 == Store(f, "refreshRate", f.refresh_rate)
             f2 == Store(f1, "resolutionWidth", f.viewportSize.w)
             f3 == Store(f2, "resolutionHeight", f.viewportSize.h)
             f4 == Store(ReadConfig(f3, "pvr_getIntConfig", "fov_level"), "fovLevel", 1)
             f5 == Store(f4, "fov", f.fov)
             f6 == Store(ReadConfig(f5, "pvr_getFloatConfig", "eye_height"),
                         "floorHeight", DeviceFloorHeight(a.profile))
             f7 == Store(f6, "useParallelProjection", f.useParallelProjection)
             f8 == Store(ReadConfig(f7, "pvr_getIntConfig", "dbg_asw_enable"),
                         "useSmartSmoothing", FALSE)
             f9 == Store(ReadConfig(f8, "pvr_getIntConfig", "enable_lighthouse_tracking"),
                         "useLighthouseTracking", FALSE)
             f10 == Store(ReadConfig(f9, "pvr_getFloatConfig", "client_fps"), "fps", 0)
         IN  Store(f10, "valid", TRUE)

\* lines 88-90
RS_Teardown(f) ==
    IF ~f.running THEN f
    ELSE LET f1 == [Invoke(f, "pvr_destroySession", "pvr_success")
                      EXCEPT !.pvrSession = "destroyed"]
             f2 == [Invoke(f1, "pvr_shutdown", "pvr_success")
                      EXCEPT !.pvr = "shutdown"]
         IN  Return(f2, "returned")

RuntimeStatusFrame(a) ==
    LET f1 == RS_Initialise(StatusFrame, a)
        f2 == RS_CreateSession(f1, a)
        f3 == RS_DisplayInfo(f2, a)
        f4 == RS_EyeInfo(f3, a, 0)
        f5 == RS_EyeInfo(f4, a, 1)
        f6 == RS_Mode(f5, a)
        f7 == RS_FovForResolution(f6)
        f8 == RS_FovTextureSize(f7, a)
        f9 == RS_WriteStatus(f8, a)
    IN  RS_Teardown(f9)

getRuntimeStatus ==
    \E a \in RuntimeStatusCalls :
       \E f \in {RuntimeStatusFrame(a)} :
           /\ call' = [op |-> "getRuntimeStatus",
                       result |-> IF f.result = "returned" THEN "returned"
                                  ELSE "thrown",
                       pvrCalls |-> f.pvrCalls, pvrResults |-> f.pvrResults,
                       profile |-> a.profile, nativeFov |-> a.nativeFov,
                       pvr |-> f.pvr, pvrSession |-> f.pvrSession,
                       cantingAngle |-> f.cantingAngle,
                       fovForResolution |-> f.fovForResolution,
                       status |-> f.status, writes |-> f.writes]
           /\ UNCHANGED <<m_instanceCreated, has_XR_EXT_hand_tracking,
                          m_useParallelProjection, m_pvrSession,
                          m_cachedHmdInfo, m_loggedProductName, m_floorHeight,
                          m_cachedEyeInfo, m_cachedEyeFov, m_cantingAngle,
                          m_systemCreated, trackingOrigin, populated,
                          lastAcquired, reacquired, acquiredGeometry,
                          m_displayRefreshRate, m_frameDuration, m_adapterLuid>>

(***************************************************************************)
(* fillDisplayDeviceInfo                                                   *)
(***************************************************************************)
\* the adapter a device of profile p is connected to
DeviceLuid(p) == 1000 + p

\* what pvr_getEyeDisplayInfo reports: the display of a device of profile p,
\* or a display whose mode is not set, which reports a refresh rate of 0
DisplayInfos ==
    { [refresh_rate |-> DeviceRefreshRate(p), luid |-> DeviceLuid(p)] : p \in Profiles }
    \cup { [refresh_rate |-> 0, luid |-> DeviceLuid(1)] }

\* line 271: pvrDisplayInfo info{}
ZeroDisplayInfo == [refresh_rate |-> 0, luid |-> 0]

\* one fillDisplayDeviceInfo call: the answer of pvr_getEyeDisplayInfo
DisplayCalls ==
    { [result |-> "pvr_success", info |-> d] : d \in DisplayInfos }
    \cup { [result |-> r, info |-> ZeroDisplayInfo] : r \in PvrFailures }

\* 1.0 / x in IEEE arithmetic: the division by zero yields +infinity
OneOver(x) ==
    IF x = 0 THEN [kind |-> "infinite", oneOver |-> 0]
    ELSE [kind |-> "finite", oneOver |-> x]

DisplayFrame ==
    [running |-> TRUE, result |-> "none", pvrCalls |-> <<>>, pvrResults |-> <<>>,
     info |-> ZeroDisplayInfo, m_displayRefreshRate |-> m_displayRefreshRate,
     m_frameDuration |-> m_frameDuration, m_adapterLuid |-> m_adapterLuid]

\* lines 271-272
FD_DisplayInfo(f, a) ==
    LET g == Invoke(f, "pvr_getEyeDisplayInfo", a.result)
    IN  CHECK_PVRCMD(IF a.result = "pvr_success" THEN [g EXCEPT !.info = a.info] ELSE g,
                     a.result)

\* lines 288-291
FD_Store(f) ==
    IF ~f.running THEN f
    ELSE Return([f EXCEPT !.m_displayRefreshRate = f.info.refresh_rate,
                          !.m_frameDuration = OneOver(f.info.refresh_rate),
                          !.m_adapterLuid = f.info.luid],
                "returned")

fillDisplayDeviceInfo ==
    \E a \in DisplayCalls :
       \E f \in {FD_Store(FD_DisplayInfo(DisplayFrame, a))} :
           /\ m_displayRefreshRate' = f.m_displayRefreshRate
           /\ m_frameDuration' = f.m_frameDuration
           /\ m_adapterLuid' = f.m_adapterLuid
           /\ call' = [op |-> "fillDisplayDeviceInfo",
                       result |-> IF f.result = "returned" THEN "returned"
                                  ELSE "thrown",
                       pvrCalls |-> f.pvrCalls, pvrResults |-> f.pvrResults]
           /\ UNCHANGED <<m_instanceCreated, has_XR_EXT_hand_tracking,
                          m_useParallelProjection, m_pvrSession,
                          m_cachedHmdInfo, m_loggedProductName, m_floorHeight,
                          m_cachedEyeInfo, m_cachedEyeFov, m_cantingAngle,
                          m_systemCreated, trackingOrigin, populated,
                          lastAcquired, reacquired, acquiredGeometry>>

Next ==
    \/ xrGetSystem
    \/ xrGetSystemProperties
    \/ xrEnumerateEnvironmentBlendModes

Spec == Init /\ [][Next]_vars

\* the runtime and the companion's status query against the same device
NextCompanion ==
    \/ xrGetSystem
    \/ getRuntimeStatus

SpecCompanion == Init /\ [][NextCompanion]_vars

\* successive acquisitions, each one's geometry recorded
NextAcquisitions == xrGetSystemRecorded

SpecAcquisitions == Init /\ [][NextAcquisitions]_vars

\* the runtime acquiring the system and refreshing its display information
NextDisplay ==
    \/ xrGetSystem
    \/ fillDisplayDeviceInfo

SpecDisplay == Init /\ [][NextDisplay]_vars

(***************************************************************************)
(* Properties.                                                             *)
(***************************************************************************)
Has(seq, x) == \E i \in 1..Len(seq) : seq[i] = x

Snapshot ==
    <<m_cachedHmdInfo, m_floorHeight, m_cachedEyeInfo, m_cachedEyeFov,
      m_cantingAngle>>

\* the request of an xrGetSystem call passes the checks of lines 36-51
AcceptedGetSystem(c) ==
    /\ c.op = "xrGetSystem"
    /\ c.type = "XR_TYPE_SYSTEM_GET_INFO"
    /\ m_instanceCreated /\ c.instance = TheInstance
    /\ c.formFactor = "XR_FORM_FACTOR_HEAD_MOUNTED_DISPLAY"

\* C1: m_systemCreated is true if and only if the cached device identity and
\* both cached eye-render-info entries have each been populated at least once.
C1_CreatedIffPopulated ==
    m_systemCreated <=> {"hmdInfo", "eyeInfo0", "eyeInfo1"} \subseteq populated

\* C2: an xrGetSystem call that ends in any outcome other than success leaves
\* m_systemCreated and the whole cached snapshot as they were before the call.
C2_FailedAcquisitionCachesNothing ==
    [][(call'.op = "xrGetSystem" /\ call'.result # "XR_SUCCESS")
          => (m_systemCreated' = m_systemCreated /\ Snapshot' = Snapshot)]_vars

\* C3: pvr_createSession is invoked only in a call that starts with no stored
\* session handle, and a stored session handle never changes.
C3_SessionCreatedOnce ==
    [][/\ Has(call'.pvrCalls, "pvr_createSession") => m_pvrSession = NULL
       /\ m_pvrSession # NULL => m_pvrSession' = m_pvrSession]_vars

\* C3 witness: with a session stored, a later call reached the device service
\* without creating a session.
C3_Witness ==
    /\ m_pvrSession # NULL
    /\ call.op = "xrGetSystem"
    /\ call.pvrCalls # <<>>
    /\ ~Has(call.pvrCalls, "pvr_createSession")

RpcFailedCall(c) ==
    /\ c.op = "xrGetSystem"
    /\ c.pvrCalls # <<>>
    /\ c.pvrCalls[1] = "pvr_createSession"
    /\ c.pvrResults[1] = "pvr_rpc_failed"

\* C4: when pvr_createSession answers pvr_rpc_failed, xrGetSystem returns
\* XR_ERROR_FORM_FACTOR_UNAVAILABLE, makes no other PVR call and stores no
\* session; an accepted xrGetSystem call that finds no session stored starts
\* by creating one.
C4_ServiceUnreachable ==
    /\ [](RpcFailedCall(call) =>
            /\ call.result = "XR_ERROR_FORM_FACTOR_UNAVAILABLE"
            /\ call.pvrCalls = <<"pvr_createSession">>
            /\ m_pvrSession = NULL)
    /\ [][(m_pvrSession = NULL /\ AcceptedGetSystem(call')) =>
            (call'.pvrCalls # <<>> /\ call'.pvrCalls[1] = "pvr_createSession")]_vars

\* C4 witness: a call whose session creation answered pvr_rpc_failed.
C4_Witness == RpcFailedCall(call) /\ m_pvrSession = NULL

StatusAnswered(c) ==
    /\ c.op = "xrGetSystem"
    /\ \E i \in 1..Len(c.pvrCalls) :
          c.pvrCalls[i] = "pvr_getHmdStatus" /\ c.pvrResults[i] = "pvr_success"

\* C5: when the status query succeeds, xrGetSystem returns
\* XR_ERROR_FORM_FACTOR_UNAVAILABLE exactly when not (ServiceReady and
\* HmdPresent), whatever the other four flags are, and then fetches neither the
\* identity nor the eye info.
C5_UnavailableIffNotReady ==
    StatusAnswered(call) =>
        /\ (call.result = "XR_ERROR_FORM_FACTOR_UNAVAILABLE")
              <=> ~(call.status.ServiceReady /\ call.status.HmdPresent)
        /\ call.result = "XR_ERROR_FORM_FACTOR_UNAVAILABLE" =>
              /\ ~Has(call.pvrCalls, "pvr_getHmdInfo")
              /\ ~Has(call.pvrCalls, "pvr_getEyeRenderInfo(Left)")
              /\ ~Has(call.pvrCalls, "pvr_getEyeRenderInfo(Right)")

\* C5 witness: a present but not ready headset, mounted, is reported unavailable.
C5_Witness ==
    /\ StatusAnswered(call)
    /\ call.result = "XR_ERROR_FORM_FACTOR_UNAVAILABLE"
    /\ call.status.HmdPresent /\ ~call.status.ServiceReady
    /\ call.status.HmdMounted

\* a PVR call of the xrGetSystem call c failed, other than pvr_createSession
\* with pvr_rpc_failed
FailedPvrCall(c, i) ==
    /\ c.pvrResults[i] # "pvr_success"
    /\ ~(c.pvrCalls[i] = "pvr_createSession" /\ c.pvrResults[i] = "pvr_rpc_failed")

HardFailure(c) ==
    c.op = "xrGetSystem" /\ \E i \in 1..Len(c.pvrCalls) : FailedPvrCall(c, i)

\* C6: a failed PVR call, other than pvr_createSession answering
\* pvr_rpc_failed, ends the xrGetSystem call as a hard failure: the call returns
\* neither XR_SUCCESS nor the unavailable outcome, does not write the system id,
\* does not change m_systemCreated, makes no PVR call after the failed one and
\* does not repeat it.
C6_HardFailure ==
    /\ [](HardFailure(call) =>
            /\ call.result \notin {"XR_SUCCESS", "XR_ERROR_FORM_FACTOR_UNAVAILABLE"}
            /\ call.systemId = NULL
            /\ \A i \in 1..Len(call.pvrCalls) :
                  FailedPvrCall(call, i) =>
                      /\ i = Len(call.pvrCalls)
                      /\ \A j \in 1..Len(call.pvrCalls) :
                            call.pvrCalls[j] = call.pvrCalls[i] => j = i)
    /\ [][HardFailure(call') => m_systemCreated' = m_systemCreated]_vars

\* C6 witness: the tracking-origin configuration, the last step, failed.
C6_Witness ==
    /\ HardFailure(call)
    /\ call.pvrCalls[Len(call.pvrCalls)] = "pvr_setTrackingOriginType"

\* C7: once m_systemCreated is true it stays true, and every successful
\* xrGetSystem returns the system id 1.
C7_CreatedMonotonic ==
    /\ [][m_systemCreated => m_systemCreated']_vars
    /\ []((call.op = "xrGetSystem" /\ call.result = "XR_SUCCESS")
             => call.systemId = 1)

\* C7 witness: a re-acquisition that found the headset unavailable left the
\* system created.
C7_Witness ==
    /\ m_systemCreated
    /\ call.op = "xrGetSystem"
    /\ call.result = "XR_ERROR_FORM_FACTOR_UNAVAILABLE"

\* C8: after two successful xrGetSystem calls in succession on the same device
\* state, xrGetSystemProperties reports the same property values as it did
\* between the two, and both calls returned the same system id.
C8_ReacquisitionIdempotent ==
    /\ (reacquired.before # NoProperties /\ reacquired.seen # NoProperties)
          => reacquired.seen = reacquired.before
    /\ (call.op = "xrGetSystem" /\ call.result = "XR_SUCCESS" /\ lastAcquired # 0)
          => call.systemId = TheSystemId

\* C8 witness: properties were reported after each of two successive
\* acquisitions of the same device.
C8_Witness ==
    /\ reacquired.before # NoProperties
    /\ reacquired.seen # NoProperties
    /\ call.op = "xrGetSystemProperties"

QueryCall(c) ==
    c.op \in {"xrGetSystemProperties", "xrEnumerateEnvironmentBlendModes"}

HandleGate(c) ==
    IF ~(m_instanceCreated /\ c.instance = 1)
    THEN c.result = "XR_ERROR_HANDLE_INVALID"
    ELSE ~(m_systemCreated /\ c.systemId = 1) => c.result = "XR_ERROR_SYSTEM_INVALID"

\* C9 as stated: both queries return XR_ERROR_HANDLE_INVALID when the instance
\* is not created or the instance handle is not 1, otherwise
\* XR_ERROR_SYSTEM_INVALID when no system is created or the system id is not 1.
C9_Original ==
    QueryCall(call) =>
        /\ HandleGate(call)
        /\ ~m_systemCreated => call.result # "XR_SUCCESS"

\* C9 amended: xrGetSystemProperties first returns XR_ERROR_VALIDATION_FAILURE
\* for a properties structure with a wrong type tag; with the right type tag,
\* and always for xrEnumerateEnvironmentBlendModes, the query returns
\* XR_ERROR_HANDLE_INVALID when the instance is not created or the handle is
\* not 1, otherwise XR_ERROR_SYSTEM_INVALID when no system is created or the
\* system id is not 1; neither returns XR_SUCCESS before the first successful
\* acquisition.
C9_QueriesGated ==
    QueryCall(call) =>
        /\ IF call.op = "xrGetSystemProperties"
              /\ call.type # "XR_TYPE_SYSTEM_PROPERTIES"
           THEN call.result = "XR_ERROR_VALIDATION_FAILURE"
           ELSE HandleGate(call)
        /\ ~m_systemCreated => call.result # "XR_SUCCESS"

\* C9 witness: a well-formed properties query on the created instance before
\* any acquisition is refused with XR_ERROR_SYSTEM_INVALID.
C9_Witness ==
    /\ call.op = "xrGetSystemProperties"
    /\ call.type = "XR_TYPE_SYSTEM_PROPERTIES"
    /\ m_instanceCreated /\ call.instance = 1 /\ call.systemId = 1
    /\ ~m_systemCreated
    /\ call.result = "XR_ERROR_SYSTEM_INVALID"

\* C10: a successful xrGetSystemProperties changes a chain block only if its
\* type is the hand-tracking properties type and the hand-tracking extension
\* was negotiated; blocks of any other type are left untouched; with the
\* extension negotiated, a hand-tracking block behind blocks of other types is
\* filled.
C10_ChainFill ==
    (call.op = "xrGetSystemProperties" /\ call.result = "XR_SUCCESS") =>
        /\ \A i \in 1..Len(call.chain) :
              call.chain[i] # call.chainIn[i] =>
                 /\ call.chainIn[i].type = "XR_TYPE_SYSTEM_HAND_TRACKING_PROPERTIES_EXT"
                 /\ has_XR_EXT_hand_tracking
        /\ (has_XR_EXT_hand_tracking
            /\ \E i \in 1..Len(call.chainIn) :
                  call.chainIn[i].type = "XR_TYPE_SYSTEM_HAND_TRACKING_PROPERTIES_EXT")
           => \E i \in 1..Len(call.chain) :
                 /\ call.chain[i].type = "XR_TYPE_SYSTEM_HAND_TRACKING_PROPERTIES_EXT"
                 /\ call.chain[i].supportsHandTracking = XR_TRUE

(***************************************************************************)
(* C11: a blend-mode enumeration with a valid instance, a created system   *)
(* and the stereo view configuration follows the two-phase contract for    *)
(* every capacity: with capacity 0 it succeeds, reports count 1 and writes *)
(* nothing; with capacity >= 1 it succeeds, reports count 1 and writes     *)
(* exactly one entry, Opaque, at index 0 of the array it was given (none   *)
(* when the array pointer is null); a nonzero capacity below the true      *)
(* count of 1 would give XR_ERROR_SIZE_INSUFFICIENT with the count and the *)
(* array untouched; no entry beyond index count - 1 is ever written.       *)
(***************************************************************************)
EnumerateAccepted ==
    /\ call.op = "xrEnumerateEnvironmentBlendModes"
    /\ m_instanceCreated /\ call.instance = 1
    /\ m_systemCreated /\ call.systemId = 1
    /\ call.viewConfigurationType = "XR_VIEW_CONFIGURATION_TYPE_PRIMARY_STEREO"

C11_TwoPhase ==
    EnumerateAccepted =>
        IF call.capacity # 0 /\ call.capacity < 1
        THEN /\ call.result = "XR_ERROR_SIZE_INSUFFICIENT"
             /\ call.count = -1
             /\ \A i \in 1..call.capacity : call.modes[i] = "untouched"
        ELSE /\ call.result = "XR_SUCCESS"
             /\ call.count = 1
             /\ \A i \in 1..call.capacity :
                    call.modes[i] = IF call.hasArray /\ i = 1
                                    THEN "XR_ENVIRONMENT_BLEND_MODE_OPAQUE"
                                    ELSE "untouched"

C11_Witness ==
    /\ EnumerateAccepted
    /\ call.capacity = 2 /\ call.hasArray
    /\ call.result = "XR_SUCCESS" /\ call.count = 1
    /\ call.modes[1] = "XR_ENVIRONMENT_BLEND_MODE_OPAQUE"
    /\ call.modes[2] = "untouched"

(***************************************************************************)
(* C12: after every successful xrGetSystem the parallel-projection         *)
(* correction is applied to the cached fields of view exactly when the     *)
(* computed canting angle is nonzero and parallel projection is preferred; *)
(* with canting 0, or with native FOV preferred, the cached fields of view *)
(* are the raw conversion.  getRuntimeStatus reports parallel projection   *)
(* exactly when its canting angle is nonzero and steamvr_use_native_fov is *)
(* off.                                                                    *)
(***************************************************************************)
AcquiredCall == call.op = "xrGetSystem" /\ call.result = "XR_SUCCESS"

\* what updateEyeInfo added to the raw conversion of the cached eye info
AppliedCorrection(i) ==
    [up |-> m_cachedEyeFov[i].angleUp - atan(m_cachedEyeInfo[i].Fov.UpTan),
     down |-> m_cachedEyeFov[i].angleDown + atan(m_cachedEyeInfo[i].Fov.DownTan),
     left |-> m_cachedEyeFov[i].angleLeft + atan(m_cachedEyeInfo[i].Fov.LeftTan),
     right |-> m_cachedEyeFov[i].angleRight - atan(m_cachedEyeInfo[i].Fov.RightTan)]

NoCorrection == [up |-> 0, down |-> 0, left |-> 0, right |-> 0]

C12_ModeGating ==
    /\ AcquiredCall =>
          /\ m_cantingAngle = 10 * (lastAcquired - 1)
          /\ \A i \in {0, 1} :
                (AppliedCorrection(i) # NoCorrection)
                    <=> (m_useParallelProjection /\ m_cantingAngle # 0)
    /\ (call.op = "getRuntimeStatus" /\ call.result = "returned") =>
          /\ call.cantingAngle = 10 * (call.profile - 1)
          /\ call.status.useParallelProjection
                <=> (call.cantingAngle # 0 /\ ~call.nativeFov)

\* C12 witness: a canted device acquired with parallel projection preferred
\* has the correction applied.
C12_Witness ==
    /\ AcquiredCall
    /\ m_useParallelProjection /\ m_cantingAngle # 0
    /\ AppliedCorrection(0) # NoCorrection

(***************************************************************************)
(* C13: after a successful xrGetSystem each eye's cached field of view is  *)
(* the reference transform of what the device reported.  Native mode: the  *)
(* raw signed conversion (down and left negated), the cached orientation   *)
(* as fetched.  Parallel-projection mode: angleUp raised by 6 degrees and  *)
(* angleDown lowered by 6 degrees for both eyes, angleLeft and angleRight  *)
(* shifted by -canting for the left eye and +canting for the right eye,    *)
(* and the cached orientation set to identity.                             *)
(***************************************************************************)
ReferenceFov(reported, i, parallel, canting) ==
    LET shift == IF i = 0 THEN -canting ELSE canting
    IN  IF parallel
        THEN [angleUp |-> atan(reported.UpTan) + 12,
              angleDown |-> -atan(reported.DownTan) - 12,
              angleLeft |-> -atan(reported.LeftTan) + shift,
              angleRight |-> atan(reported.RightTan) + shift]
        ELSE [angleUp |-> atan(reported.UpTan),
              angleDown |-> -atan(reported.DownTan),
              angleLeft |-> -atan(reported.LeftTan),
              angleRight |-> atan(reported.RightTan)]

C13_ReferenceTransform ==
    AcquiredCall =>
        \A i \in {0, 1} :
           LET reported == DeviceEyeInfo(lastAcquired, i)
               parallel == m_useParallelProjection /\ m_cantingAngle # 0
           IN  /\ m_cachedEyeFov[i] =
                     ReferenceFov(reported.Fov, i, parallel, m_cantingAngle)
               /\ m_cachedEyeInfo[i].Fov = reported.Fov
               /\ m_cachedEyeInfo[i].Orientation =
                     IF parallel THEN 0 ELSE reported.Orientation

\* C13 witness: the right eye of a canted device in parallel-projection mode,
\* shifted outwards by the canting angle, its orientation reset.
C13_Witness ==
    /\ AcquiredCall
    /\ m_useParallelProjection /\ m_cantingAngle = 10
    /\ m_cachedEyeFov[1].angleRight = atan(DeviceEyeInfo(2, 1).Fov.RightTan) + 10
    /\ m_cachedEyeFov[0].angleRight = atan(DeviceEyeInfo(2, 0).Fov.RightTan) - 10
    /\ m_cachedEyeInfo[1].Orientation = 0

(***************************************************************************)
(* C14: the queries are read-only.  On every outcome xrGetSystemProperties *)
(* and xrEnumerateEnvironmentBlendModes leave the session handle,          *)
(* m_systemCreated and the whole cached snapshot unchanged and make no     *)
(* device-service call; a step that changes any of that state is an        *)
(* xrGetSystem call.                                                       *)
(***************************************************************************)
SystemState ==
    <<m_pvrSession, m_systemCreated, m_cachedHmdInfo, m_floorHeight,
      m_cachedEyeInfo, m_cachedEyeFov, m_cantingAngle>>

C14_QueriesReadOnly ==
    [][/\ call'.op \in {"xrGetSystemProperties", "xrEnumerateEnvironmentBlendModes"}
            => (SystemState' = SystemState /\ call'.pvrCalls = <<>>)
       /\ SystemState' # SystemState => call'.op = "xrGetSystem"]_vars

\* C14 witness: a successful property query, which read the cached identity.
C14_Witness ==
    /\ call.op = "xrGetSystemProperties"
    /\ call.result = "XR_SUCCESS"
    /\ call.properties.vendorId = m_cachedHmdInfo.VendorId
    /\ m_cachedHmdInfo.VendorId # 0

(***************************************************************************)
(* C15: xrGetSystem rejects a request before it touches the device.  A     *)
(* wrong type tag gives XR_ERROR_VALIDATION_FAILURE, even when the         *)
(* instance is invalid too; otherwise an invalid or uncreated instance     *)
(* gives XR_ERROR_HANDLE_INVALID; otherwise a form factor other than HMD   *)
(* gives XR_ERROR_FORM_FACTOR_UNSUPPORTED.  In all three no session is     *)
(* created, no PVR call is made and no state changes, even when no session *)
(* exists yet; an accepted request returns none of the three.              *)
(***************************************************************************)
Rejections ==
    {"XR_ERROR_VALIDATION_FAILURE", "XR_ERROR_HANDLE_INVALID",
     "XR_ERROR_FORM_FACTOR_UNSUPPORTED"}

RejectedGetSystem(c) == c.op = "xrGetSystem" /\ c.result \in Rejections

C15_RejectionFirst ==
    /\ [](call.op = "xrGetSystem" =>
            IF call.type # "XR_TYPE_SYSTEM_GET_INFO"
            THEN call.result = "XR_ERROR_VALIDATION_FAILURE"
            ELSE IF ~m_instanceCreated \/ call.instance # 1
            THEN call.result = "XR_ERROR_HANDLE_INVALID"
            ELSE IF call.formFactor # "XR_FORM_FACTOR_HEAD_MOUNTED_DISPLAY"
            THEN call.result = "XR_ERROR_FORM_FACTOR_UNSUPPORTED"
            ELSE call.result \notin Rejections)
    /\ [][RejectedGetSystem(call') =>
            /\ call'.pvrCalls = <<>>
            /\ call'.systemId = 0
            /\ SystemState' = SystemState
            /\ UNCHANGED <<m_loggedProductName, trackingOrigin, populated>>]_vars

\* C15 witness: a request with a wrong type tag and an invalid instance, made
\* while no session exists, was rejected for its type.
C15_Witness ==
    /\ call.op = "xrGetSystem"
    /\ call.type # "XR_TYPE_SYSTEM_GET_INFO"
    /\ call.instance # 1
    /\ call.result = "XR_ERROR_VALIDATION_FAILURE"
    /\ m_pvrSession = 0

(***************************************************************************)
(* C16: getRuntimeStatus tears down what it creates.  On every device      *)
(* outcome, when the call ends a temporary session it created has been     *)
(* destroyed and the environment it initialised has been shut down; valid  *)
(* is set only after every other field of the status was written; and the  *)
(* call leaves the runtime's session handle and cached system state alone. *)
(***************************************************************************)
StatusCall(c) == c.op = "getRuntimeStatus"

C16_TearsDown ==
    /\ [](StatusCall(call) =>
            /\ call.pvrSession # "created"
            /\ call.pvr # "initialised"
            /\ call.status.valid =>
                  /\ call.writes[Len(call.writes)] = "valid"
                  /\ \A x \in StatusFields :
                        \E i \in 1..(Len(call.writes) - 1) : call.writes[i] = x)
    /\ [][StatusCall(call') => SystemState' = SystemState]_vars

\* the part of C16 that the code keeps: a call that returns has torn its
\* session and environment down and has written every field before valid, and
\* no call touches the runtime's state
C16_ReturnedTearsDown ==
    /\ []((StatusCall(call) /\ call.result = "returned") =>
            /\ call.pvrSession = "destroyed"
            /\ call.pvr = "shutdown"
            /\ call.status.valid
            /\ call.writes[Len(call.writes)] = "valid"
            /\ \A x \in StatusFields :
                  \E i \in 1..(Len(call.writes) - 1) : call.writes[i] = x)
    /\ []((StatusCall(call) /\ call.result # "returned") => ~call.status.valid)
    /\ [][StatusCall(call') => SystemState' = SystemState]_vars

\* a call whose temporary session was created and is left open
C16_Leak ==
    /\ StatusCall(call)
    /\ call.result = "thrown"
    /\ call.pvrSession = "created"

AcquisitionOrder ==
    <<"pvr_getHmdStatus", "pvr_getHmdInfo", "pvr_getFloatConfig",
      "pvr_getEyeRenderInfo(Left)", "pvr_getEyeRenderInfo(Right)",
      "pvr_setTrackingOriginType">>

\* the PVR calls of c after the session creation, if it made one
StepsOf(c) ==
    IF c.pvrCalls # <<>> /\ c.pvrCalls[1] = "pvr_createSession"
    THEN Tail(c.pvrCalls) ELSE c.pvrCalls

\* the last PVR call of c was fn and it failed
FailedAt(c, fn) ==
    /\ c.op = "xrGetSystem"
    /\ c.pvrCalls # <<>>
    /\ c.pvrCalls[Len(c.pvrCalls)] = fn
    /\ c.pvrResults[Len(c.pvrCalls)] # "pvr_success"

C18_StepsOrdered ==
    /\ [](call.op = "xrGetSystem" =>
            /\ Len(StepsOf(call)) <= Len(AcquisitionOrder)
            /\ \A i \in 1..Len(StepsOf(call)) : StepsOf(call)[i] = AcquisitionOrder[i]
            /\ call.result = "XR_SUCCESS" => StepsOf(call) = AcquisitionOrder
            /\ call.systemId # 0 => call.result = "XR_SUCCESS")
    /\ [](m_systemCreated => trackingOrigin = "pvrTrackingOrigin_EyeLevel")
    /\ [][/\ FailedAt(call', "pvr_getEyeRenderInfo(Right)") =>
               (m_cachedEyeFov' = m_cachedEyeFov /\ m_cantingAngle' = m_cantingAngle)
          /\ FailedAt(call', "pvr_setTrackingOriginType") =>
               /\ m_systemCreated' = m_systemCreated
               /\ trackingOrigin' = trackingOrigin
               /\ \A i \in {0, 1} :
                     m_cachedEyeFov'[i] =
                         ReferenceFov(m_cachedEyeInfo'[i].Fov, i,
                                      m_useParallelProjection' /\ m_cantingAngle' # 0,
                                      m_cantingAngle')]_vars

\* C18 witness: a first acquisition that made every step, in order, once.
C18_Witness ==
    /\ AcquiredCall
    /\ call.pvrCalls = <<"pvr_createSession">> \o AcquisitionOrder
    /\ m_systemCreated
    /\ trackingOrigin = "pvrTrackingOrigin_EyeLevel"

(***************************************************************************)
(* C19: the field of view getRuntimeStatus sizes the render target with    *)
(* agrees with the left-eye field of view updateEyeInfo caches.  For the   *)
(* same eye render info and the same mode decision, the arctangents of the *)
(* four tangents of fovForResolution equal -angleLeft, angleRight, angleUp *)
(* and -angleDown of m_cachedEyeFov[0], in both modes, and both paths      *)
(* compute the same canting angle and select the same mode.                *)
(***************************************************************************)
\* the status query ran against the device the runtime acquired last, with
\* the user's setting as the runtime's flag has it
SameDeviceAndSetting ==
    /\ StatusCall(call) /\ call.result = "returned"
    /\ lastAcquired = call.profile
    /\ call.nativeFov = ~m_useParallelProjection

C19_SizingFovAgrees ==
    SameDeviceAndSetting =>
        /\ atan(call.fovForResolution.LeftTan) = -m_cachedEyeFov[0].angleLeft
        /\ atan(call.fovForResolution.RightTan) = m_cachedEyeFov[0].angleRight
        /\ atan(call.fovForResolution.UpTan) = m_cachedEyeFov[0].angleUp
        /\ atan(call.fovForResolution.DownTan) = -m_cachedEyeFov[0].angleDown
        /\ call.cantingAngle = m_cantingAngle
        /\ call.status.useParallelProjection
              = (m_useParallelProjection /\ m_cantingAngle # 0)

\* C19 witness: both paths corrected the left eye of the same canted device.
C19_Witness ==
    /\ SameDeviceAndSetting
    /\ call.status.useParallelProjection
    /\ m_cantingAngle = 10
    /\ atan(call.fovForResolution.LeftTan) = atan(DeviceEyeInfo(2, 0).Fov.LeftTan) + 10
    /\ m_cachedEyeFov[0].angleLeft = -atan(DeviceEyeInfo(2, 0).Fov.LeftTan) - 10

(***************************************************************************)
(* C20: the projection mode is fixed for the lifetime of the created       *)
(* system: once an xrGetSystem has succeeded, the mode in effect (the      *)
(* parallel-projection flag set and the cached canting angle nonzero) is   *)
(* the same after every later xrGetSystem call, successful or not, even    *)
(* when the device reports different eye orientations.                     *)
(***************************************************************************)
ModeInEffect == m_useParallelProjection /\ m_cantingAngle # 0

C20_Original ==
    [][(m_systemCreated /\ call'.op = "xrGetSystem")
          => ModeInEffect' = ModeInEffect]_vars

\* the call c fetched both eye infos, and so went on to updateEyeInfo
FetchedBothEyes(c) ==
    /\ c.op = "xrGetSystem"
    /\ \E i \in 1..Len(c.pvrCalls) :
          /\ c.pvrCalls[i] = "pvr_getEyeRenderInfo(Right)"
          /\ c.pvrResults[i] = "pvr_success"

\* C20, amended: once an xrGetSystem has succeeded, the mode in effect changes
\* only in an xrGetSystem call that fetches both eye infos and so recomputes
\* the geometry; every other call leaves it as it was, and a successful call
\* leaves the mode that the orientations it fetched select, so the mode is
\* unchanged when the device reports the canting angle already cached.
C20_ModeFollowsGeometry ==
    [][m_systemCreated =>
          /\ ModeInEffect' # ModeInEffect => FetchedBothEyes(call')
          /\ (call'.op = "xrGetSystem" /\ call'.result = "XR_SUCCESS") =>
                /\ ModeInEffect' = (m_useParallelProjection
                                      /\ 10 * (lastAcquired' - 1) # 0)
                /\ 10 * (lastAcquired' - 1) = m_cantingAngle
                      => ModeInEffect' = ModeInEffect]_vars

\* C20 witness: a system acquired in parallel-projection mode on a canted
\* device is in native mode after a re-acquisition that found parallel optics.
C20_Witness ==
    /\ AcquiredCall
    /\ m_systemCreated /\ m_useParallelProjection
    /\ acquiredGeometry[2].cantingAngle = 10
    /\ lastAcquired = 1
    /\ ~ModeInEffect

(***************************************************************************)
(* C21: display timing.  After every fillDisplayDeviceInfo call whose      *)
(* display-info fetch succeeded, the cached refresh rate is greater than 0 *)
(* and the cached frame duration equals 1 / refresh rate, for every        *)
(* refresh rate the device can report, 0 included; and the call changes no *)
(* per-eye geometry (eye infos, fields of view, canting angle).            *)
(***************************************************************************)
DisplayFetched(c) ==
    /\ c.op = "fillDisplayDeviceInfo"
    /\ c.pvrCalls = <<"pvr_getEyeDisplayInfo">>
    /\ c.pvrResults = <<"pvr_success">>

C21_DisplayTiming ==
    /\ [](DisplayFetched(call) =>
            /\ m_displayRefreshRate > 0
            /\ m_frameDuration = [kind |-> "finite", oneOver |-> m_displayRefreshRate])
    /\ [][call'.op = "fillDisplayDeviceInfo" =>
            UNCHANGED <<m_cachedEyeInfo, m_cachedEyeFov, m_cantingAngle>>]_vars

\* the part of C21 that the code keeps: a positive refresh rate is cached with
\* its reciprocal as frame duration, a failed fetch caches nothing, and the
\* per-eye geometry is never touched
C21_PositiveRateTiming ==
    /\ []((DisplayFetched(call) /\ m_displayRefreshRate > 0) =>
            m_frameDuration = [kind |-> "finite", oneOver |-> m_displayRefreshRate])
    /\ [][call'.op = "fillDisplayDeviceInfo" =>
            /\ UNCHANGED <<m_cachedEyeInfo, m_cachedEyeFov, m_cantingAngle>>
            /\ ~DisplayFetched(call') =>
                  UNCHANGED <<m_displayRefreshRate, m_frameDuration, m_adapterLuid>>]_vars

\* a successful fetch that reported a refresh rate of 0 left the rate 0 and an
\* infinite frame duration cached
C21_ZeroRate ==
    /\ DisplayFetched(call)
    /\ m_displayRefreshRate = 0
    /\ m_frameDuration.kind = "infinite"

====
